---- MODULE Spec2Model ----
(***************************************************************************)
(* Model of packages/core/src/scheduler/tool-executor.ts: one call driven  *)
(* through ToolExecutor.execute.  The hook-wrapped execution, the artifact *)
(* store, the transcript conversion, the clock and the abort signal are    *)
(* the environment; every await of the code is a point where the           *)
(* environment (an abort, a callback of the invocation layer) can act.     *)
(***************************************************************************)
EXTENDS Integers, Sequences, FiniteSets, TLC

\* ------------------------------------------------------------------ bounds
\* Largest reading of Date.now().
MaxNow == 2
\* Longest textual llmContent.
MaxLen == 3

\* ------------------------------------------------- values of the language
\* JavaScript's undefined, for string-valued and for number-valued slots.
undefined == "<undefined>"
NoNumber == -1

SHELL_TOOL_NAME == "run_shell_command"
UNHANDLED_EXCEPTION == "unhandled_exception"
CancelReason == "User cancelled tool execution."

\* ------------------------------------------------------------- the inputs
ToolNames == {SHELL_TOOL_NAME, "read_file"}
\* The process ids the invocation layer reports and the chunks it emits, each
\* at most once, in any order.
Pids == {1, 2}
Chunks == {"a", "b"}
ErrorTypes == {undefined, "invalid_tool_params"}

Request(name) == [callId |-> "c1", name |-> name, prompt_id |-> "p1"]

\* call.tool: key absent, key present with a falsy value, or a tool.
NoTool == [key |-> FALSE, defined |-> FALSE, canUpdateOutput |-> FALSE]
Tools ==
  { NoTool, [key |-> TRUE, defined |-> FALSE, canUpdateOutput |-> FALSE] }
  \cup [key : {TRUE}, defined : {TRUE}, canUpdateOutput : BOOLEAN]

\* call.invocation: key absent, a ShellToolInvocation, or another invocation.
\* (Every variant of ToolCall that has the key types it as an invocation, so
\* a present key holds one; only `tool` is optional.)
Invocations == {"absent", "shell", "other"}

\* call.startTime: key absent, key present and undefined, or a timestamp.
StartTimes ==
  { [key |-> FALSE, value |-> NoNumber] }
  \cup [key : {TRUE}, value : {NoNumber} \cup 0..(MaxNow - 1)]

Calls ==
  [ status : {"scheduled"},
    request : {Request(n) : n \in ToolNames},
    tool : Tools,
    invocation : Invocations,
    startTime : StartTimes,
    outcome : {undefined} ]

\* ------------------------------------------------------ results and faults
NoContent == [textual |-> FALSE, len |-> NoNumber, governed |-> FALSE]
Contents ==
  { NoContent }  \* a non-string llmContent (parts)
  \cup [textual : {TRUE}, len : (MaxLen - 1)..MaxLen, governed : {FALSE}]

NoErrorDescriptor == [defined |-> FALSE, message |-> undefined, type |-> undefined]
ErrorDescriptors ==
  { NoErrorDescriptor }
  \cup [defined : {TRUE}, message : {"tool failed"}, type : ErrorTypes]

NoResult == [settled |-> FALSE, llmContent |-> NoContent,
             returnDisplay |-> undefined, error |-> NoErrorDescriptor]
ToolResults ==
  [ settled : {TRUE}, llmContent : Contents,
    returnDisplay : {undefined, "shown"}, error : ErrorDescriptors ]

\* A thrown value: a ToolExecutionError, another Error, or a non-Error value
\* (a string, or undefined), told apart by cls.
NoFault == [cls |-> "none", message |-> undefined,
            returnDisplay |-> undefined, errorType |-> undefined]
PlainError(msg) == [cls |-> "Error", message |-> msg,
                    returnDisplay |-> undefined, errorType |-> undefined]
HookFaults ==
  [ cls : {"ToolExecutionError"}, message : {"boom"},
    returnDisplay : {undefined, "friendly"}, errorType : ErrorTypes ]
  \cup { PlainError("boom"),
         [cls |-> "string", message |-> "oops",
          returnDisplay |-> undefined, errorType |-> undefined],
         [cls |-> "undefined", message |-> undefined,
          returnDisplay |-> undefined, errorType |-> undefined] }
StoreFault == PlainError("ENOSPC")
ConvertFault == PlainError("bad part")
PreconditionFault == PlainError("Cannot execute tool call c1: Tool or Invocation missing.")

\* The configuration values createSuccessResult reads.
Configs ==
  [ enableTruncation : {TRUE}, threshold : {0, MaxLen - 1}, lines : {0, 1} ]
  \cup { [enableTruncation |-> FALSE, threshold |-> MaxLen - 1, lines |-> 1],
         [enableTruncation |-> TRUE, threshold |-> -2, lines |-> 1],
         [enableTruncation |-> TRUE, threshold |-> MaxLen - 1, lines |-> -2] }
NoConfig == [enableTruncation |-> FALSE, threshold |-> NoNumber, lines |-> NoNumber]


\* ------------------------------------------------------------ pure helpers
\* String(error) for a thrown value that is not an Error.
StringOf(error) ==
  IF error.cls = "undefined" THEN "undefined" ELSE error.message

\* a ?? b
Coalesce(a, b) == IF a = undefined THEN b ELSE a

GetToolErrorMessage(error) ==
  IF error.cls = "ToolExecutionError"
  THEN [ message |-> error.message,
         display |-> Coalesce(error.returnDisplay, error.message),
         errorType |-> error.errorType ]
  ELSE LET message == IF error.cls = "Error" THEN error.message ELSE StringOf(error)
       IN  [ message |-> message, display |-> message, errorType |-> undefined ]

ToolExecutionError(message, returnDisplay, errorType) ==
  [ cls |-> "ToolExecutionError", message |-> message,
    returnDisplay |-> returnDisplay, errorType |-> errorType ]

\* 'startTime' in call ? call.startTime : undefined
StartTimeOf(c) == IF c.startTime.key THEN c.startTime.value ELSE NoNumber

\* startTime ? now - startTime : undefined
Duration(startTime, now) ==
  IF startTime # NoNumber /\ startTime # 0 THEN now - startTime ELSE NoNumber

\* The readings Date.now() can give: the clock is not behind the start time
\* the caller recorded from it.
Nows(c) == { t \in 0..MaxNow : t >= StartTimeOf(c) }

\* Mutant: the check of a falsy call.tool is left out.
PreconditionHolds_KeysOnly(c) == c.tool.key /\ c.invocation # "absent"

\* !('tool' in call) || !call.tool || !('invocation' in call), negated
PreconditionHolds(c) ==
  c.tool.key /\ c.tool.defined /\ c.invocation # "absent"

\* Mutant: the shell tool is recognised by its name, not by its invocation.
IsShellToolInvocation_ByName(c) == c.request.name = SHELL_TOOL_NAME

\* invocation instanceof ShellToolInvocation
IsShellToolInvocation(c) == c.invocation = "shell"

\* Mutant: the tool's canUpdateOutput is not consulted.
WantsLiveOutput_AnyTool(c, handler) == handler

\* tool.canUpdateOutput && outputUpdateHandler
WantsLiveOutput(c, handler) == c.tool.canUpdateOutput /\ handler

\* Mutant: the start time is kept by truthiness, which loses a start time of 0.
ExecutingCall_TruthyStart(c, pid) ==
  [ status |-> "executing", request |-> c.request, tool |-> c.tool,
    invocation |-> c.invocation, pid |-> pid,
    startTime |-> IF StartTimeOf(c) # 0 THEN StartTimeOf(c) ELSE NoNumber,
    outcome |-> c.outcome ]

ExecutingCall(c, pid) ==
  [ status |-> "executing", request |-> c.request, tool |-> c.tool,
    invocation |-> c.invocation, pid |-> pid,
    startTime |-> StartTimeOf(c), outcome |-> c.outcome ]

FunctionResponse(request, error, output) ==
  [ id |-> request.callId, name |-> request.name,
    error |-> error, output |-> output ]

\* Mutant: the content length is the reason's, without the prefix.
CreateCancelledResult_ReasonLength(c, reason, now) ==
  LET errorMessage == "[Operation Cancelled] " \o reason
  IN  [ status |-> "cancelled",
        request |-> c.request,
        response |->
          [ callId |-> c.request.callId,
            functionResponse |-> FunctionResponse(c.request, errorMessage, NoContent),
            resultDisplay |-> undefined,
            error |-> NoFault,
            errorType |-> undefined,
            outputFile |-> undefined,
            contentLength |-> Len(reason) ],
        tool |-> c.tool,
        invocation |-> c.invocation,
        durationMs |-> Duration(StartTimeOf(c), now),
        outcome |-> c.outcome ]

CreateCancelledResult(c, reason, now) ==
  LET errorMessage == "[Operation Cancelled] " \o reason
  IN  [ status |-> "cancelled",
        request |-> c.request,
        response |->
          [ callId |-> c.request.callId,
            functionResponse |-> FunctionResponse(c.request, errorMessage, NoContent),
            resultDisplay |-> undefined,
            error |-> NoFault,
            errorType |-> undefined,
            outputFile |-> undefined,
            contentLength |-> Len(errorMessage) ],
        tool |-> c.tool,
        invocation |-> c.invocation,
        durationMs |-> Duration(StartTimeOf(c), now),
        outcome |-> c.outcome ]

\* Mutant: the display is sent as the machine-readable error.
CreateErrorResponse_DisplayAsError(request, error, errorType) ==
  LET m == GetToolErrorMessage(error)
  IN  [ callId |-> request.callId,
        functionResponse |-> FunctionResponse(request, m.display, NoContent),
        resultDisplay |-> m.display,
        error |-> error,
        errorType |-> errorType,
        outputFile |-> undefined,
        contentLength |-> Len(m.message) ]

CreateErrorResponse(request, error, errorType) ==
  LET m == GetToolErrorMessage(error)
  IN  [ callId |-> request.callId,
        functionResponse |-> FunctionResponse(request, m.message, NoContent),
        resultDisplay |-> m.display,
        error |-> error,
        errorType |-> errorType,
        outputFile |-> undefined,
        contentLength |-> Len(m.message) ]

CreateErrorResult(c, error, now) ==
  LET finalErrorType ==
        IF error.cls = "ToolExecutionError" THEN error.errorType ELSE undefined
  IN  [ status |-> "error",
        request |-> c.request,
        response |-> CreateErrorResponse(c.request, error, finalErrorType),
        tool |-> c.tool,
        invocation |-> "absent",
        durationMs |-> Duration(StartTimeOf(c), now),
        outcome |-> c.outcome ]

\* Mutant: the preview line count is not tested.
GovernanceApplies_NoLinesTest(c, cont, config) ==
  /\ cont.textual
  /\ c.request.name = SHELL_TOOL_NAME
  /\ config.enableTruncation
  /\ config.threshold > 0

\* The guard of output governance in createSuccessResult.
GovernanceApplies(c, cont, config) ==
  /\ cont.textual
  /\ c.request.name = SHELL_TOOL_NAME
  /\ config.enableTruncation
  /\ config.threshold > 0
  /\ config.lines > 0

\* Mutant: content of exactly the threshold's length is truncated too.
ExceedsThreshold_Inclusive(cont, config) == cont.len >= config.threshold

\* content.length > threshold
ExceedsThreshold(cont, config) == cont.len > config.threshold

\* What formatTruncatedToolOutput can return: a stub of some length.
\* (The stub is shorter than the content it replaces.)
FormattedLens(cont) == 1..(cont.len - 1)
FormatTruncatedToolOutput(cont, newLen) ==
  [textual |-> TRUE, len |-> newLen, governed |-> TRUE]

\* Mutant: the truncated length is taken before the content is replaced.
TruncationEvent_LengthBefore(c, original, truncated, cfg) ==
  [ prompt_id |-> c.request.prompt_id,
    toolName |-> c.request.name,
    originalContentLength |-> original.len,
    truncatedContentLength |-> original.len,
    threshold |-> cfg.threshold,
    lines |-> cfg.lines ]

\* The ToolOutputTruncatedEvent given to logToolOutputTruncated.
TruncationEvent(c, original, truncated, cfg) ==
  [ prompt_id |-> c.request.prompt_id,
    toolName |-> c.request.name,
    originalContentLength |-> original.len,
    truncatedContentLength |-> truncated.len,
    threshold |-> cfg.threshold,
    lines |-> cfg.lines ]

\* The part of createSuccessResult after governance: the response and the call.
SuccessCall(c, result, cont, file, now) ==
  [ status |-> "success",
    request |-> c.request,
    response |->
      [ callId |-> c.request.callId,
        functionResponse |-> FunctionResponse(c.request, undefined, cont),
        resultDisplay |-> result.returnDisplay,
        error |-> NoFault,
        errorType |-> undefined,
        outputFile |-> file,
        contentLength |-> IF cont.textual THEN cont.len ELSE NoNumber ],
    tool |-> c.tool,
    invocation |-> c.invocation,
    durationMs |-> Duration(StartTimeOf(c), now),
    outcome |-> c.outcome ]

\* Mutant: the error descriptor is tested before the signal.
TryOutcome_ErrorFirst(isAborted, result) ==
  IF result.error.defined THEN "error"
  ELSE IF isAborted THEN "cancelled"
  ELSE "success"

\* Mutant: a textual payload counts as success whatever the error descriptor.
TryOutcome_PayloadFirst(isAborted, result) ==
  IF isAborted THEN "cancelled"
  ELSE IF result.llmContent.textual \/ result.error.defined = FALSE THEN "success"
  ELSE "error"

\* Mutant: the signal is consulted only for a result with an error descriptor.
TryOutcome_SuccessFirst(isAborted, result) ==
  IF result.error.defined = FALSE THEN "success"
  ELSE IF isAborted THEN "cancelled"
  ELSE "error"

\* The branch taken after the awaited result settled.
TryOutcome(isAborted, result) ==
  IF isAborted THEN "cancelled"
  ELSE IF result.error.defined = FALSE THEN "success"
  ELSE "error"

\* Mutant: the error type is not defaulted to UNHANDLED_EXCEPTION.
CatchResult_NoDefaultType(c, isAborted, fault, now) ==
  IF isAborted
  THEN CreateCancelledResult(c, CancelReason, now)
  ELSE LET m == GetToolErrorMessage(fault)
       IN  CreateErrorResult(c,
             ToolExecutionError(m.message, m.display, m.errorType), now)

\* The call the catch block returns for the fault it caught.
CatchResult(c, isAborted, fault, now) ==
  IF isAborted
  THEN CreateCancelledResult(c, CancelReason, now)
  ELSE LET m == GetToolErrorMessage(fault)
           finalErrorType == Coalesce(m.errorType, UNHANDLED_EXCEPTION)
       IN  CreateErrorResult(c,
             ToolExecutionError(m.message, m.display, finalErrorType), now)


\* ------------------------------------------------------------------- state
VARIABLES
  call,                \* context.call
  outputUpdateHandler, \* whether context.outputUpdateHandler was supplied
  aborted,             \* signal.aborted
  pc,                  \* where execute stands
  liveOutputCallback,  \* whether a forwarding callback was handed over
  setPidCallback,      \* whether a process-identity callback was handed over
  hookCalls,           \* calls of executeToolWithHooks
  toolResult,          \* the value the awaited promise settled with
  executionError,      \* the value caught by the catch block
  faultFrom,           \* which collaborator threw it
  config,              \* the configuration createSuccessResult read
  content,             \* createSuccessResult's content
  outputFile,          \* createSuccessResult's outputFile
  storeCalls,          \* calls of saveTruncatedToolOutput
  telemetry,           \* records given to logToolOutputTruncated
  pidCalls,            \* pids the invocation layer reported
  notified,            \* calls given to onUpdateToolCall
  chunksEmitted,       \* chunks the invocation layer emitted
  sinkLog,             \* calls of outputUpdateHandler
  pending,             \* the call createSuccessResult resolved with
  returned,            \* calls execute returned
  thrown,              \* faults execute threw to its caller
  spanMetadata,        \* which of the span's slots were written
  checks               \* every read of signal.aborted, in order

vars ==
  << call, outputUpdateHandler, aborted, pc, liveOutputCallback, setPidCallback,
     hookCalls, toolResult, executionError, faultFrom, config, content,
     outputFile, storeCalls, telemetry, pidCalls, notified, chunksEmitted,
     sinkLog, pending, returned, thrown, spanMetadata, checks >>

\* Groups of variables the actions leave alone.
inputVars == << call, outputUpdateHandler >>
callbackVars == << pidCalls, notified, chunksEmitted, sinkLog >>
successVars == << config, content, outputFile, storeCalls, telemetry, pending >>

NoCall == CreateCancelledResult(
            [status |-> "scheduled", request |-> Request(undefined), tool |-> NoTool,
             invocation |-> "absent",
             startTime |-> [key |-> FALSE, value |-> NoNumber],
             outcome |-> undefined], "", 0)

Init ==
  /\ call \in Calls
  /\ outputUpdateHandler \in BOOLEAN
  /\ aborted = FALSE
  /\ pc = "start"
  /\ liveOutputCallback = FALSE
  /\ setPidCallback = FALSE
  /\ hookCalls = 0
  /\ toolResult = NoResult
  /\ executionError = NoFault
  /\ faultFrom = "none"
  /\ config = NoConfig
  /\ content = NoContent
  /\ outputFile = undefined
  /\ storeCalls = << >>
  /\ telemetry = << >>
  /\ pidCalls = << >>
  /\ notified = << >>
  /\ chunksEmitted = << >>
  /\ sinkLog = << >>
  /\ pending = NoCall
  /\ returned = << >>
  /\ thrown = << >>
  /\ spanMetadata = [input |-> FALSE, output |-> FALSE, error |-> FALSE]
  /\ checks = << >>

\* ----------------------------------------------------------- environment
\* The owner of the AbortSignal aborts it, at any time before execute is
\* over (the signal is not read afterwards).
Abort ==
  /\ ~aborted
  /\ pc \notin {"returned", "thrown"}
  /\ aborted' = TRUE
  /\ UNCHANGED << inputVars, pc, liveOutputCallback, setPidCallback, hookCalls,
                  toolResult, executionError, faultFrom, successVars,
                  callbackVars, returned, thrown, spanMetadata, checks >>

\* The invocation layer calls the process-identity callback it was handed:
\* setPidCallback builds the executing call and gives it to onUpdateToolCall.
SetPid(pid) ==
  /\ setPidCallback
  /\ \A i \in 1..Len(pidCalls) : pidCalls[i] # pid
  /\ pidCalls' = Append(pidCalls, pid)
  /\ notified' = Append(notified, ExecutingCall(call, pid))
  /\ UNCHANGED << inputVars, aborted, pc, liveOutputCallback, setPidCallback,
                  hookCalls, toolResult, executionError, faultFrom, successVars,
                  chunksEmitted, sinkLog, returned, thrown, spanMetadata, checks >>

\* The invocation layer emits a chunk through the forwarding callback, which
\* calls outputUpdateHandler(callId, outputChunk).
LiveOutput(chunk) ==
  /\ liveOutputCallback
  /\ \A i \in 1..Len(chunksEmitted) : chunksEmitted[i] # chunk
  /\ chunksEmitted' = Append(chunksEmitted, chunk)
  /\ sinkLog' = Append(sinkLog, [callId |-> call.request.callId, output |-> chunk])
  /\ UNCHANGED << inputVars, aborted, pc, liveOutputCallback, setPidCallback,
                  hookCalls, toolResult, executionError, faultFrom, successVars,
                  pidCalls, notified, returned, thrown, spanMetadata, checks >>

\* The promise of executeToolWithHooks is fulfilled.
HookSettles(result) ==
  /\ pc = "awaitHook"
  /\ toolResult' = result
  /\ pc' = "hookSettled"
  /\ UNCHANGED << inputVars, aborted, liveOutputCallback, setPidCallback,
                  hookCalls, executionError, faultFrom, successVars,
                  callbackVars, returned, thrown, spanMetadata, checks >>

\* The promise of executeToolWithHooks is rejected.
HookThrows(fault) ==
  /\ pc = "awaitHook"
  /\ executionError' = fault
  /\ faultFrom' = "hook"
  /\ pc' = "rejected"
  /\ UNCHANGED << inputVars, aborted, liveOutputCallback, setPidCallback,
                  hookCalls, toolResult, successVars, callbackVars, returned,
                  thrown, spanMetadata, checks >>

\* ------------------------------------------------------------------ execute
\* From the entry of execute to the await of the promise: the precondition,
\* the live-output callback, the span's input and the hook-wrapped execution.
Execute ==
  /\ pc = "start"
  /\ IF ~PreconditionHolds(call)
     THEN /\ thrown' = Append(thrown, PreconditionFault)
          /\ pc' = "thrown"
          /\ UNCHANGED << liveOutputCallback, setPidCallback, hookCalls,
                          spanMetadata >>
     ELSE /\ liveOutputCallback' = WantsLiveOutput(call, outputUpdateHandler)
          /\ spanMetadata' = [spanMetadata EXCEPT !.input = TRUE]
          /\ setPidCallback' = IsShellToolInvocation(call)
          /\ hookCalls' = hookCalls + 1
          /\ pc' = "awaitHook"
          /\ UNCHANGED thrown
  /\ UNCHANGED << inputVars, aborted, toolResult, executionError, faultFrom,
                  successVars, callbackVars, returned, checks >>

\* The rest of createSuccessResult once governance is done: the transcript
\* conversion (which may throw), the response and the call.  The promise of
\* createSuccessResult settles; execute resumes in a later step.
FinishSuccess(cont, file, convertThrows, now) ==
  IF convertThrows
  THEN /\ executionError' = ConvertFault
       /\ faultFrom' = "convert"
       /\ pc' = "rejected"
       /\ UNCHANGED pending
  ELSE /\ pending' = SuccessCall(call, toolResult, cont, file, now)
       /\ pc' = "successSettled"
       /\ UNCHANGED << executionError, faultFrom >>

\* The continuation of `await promise` in the try block: the span's output,
\* the read of signal.aborted, and the branch it selects.  The success branch
\* runs createSuccessResult up to its first await.
TryBranch ==
  /\ pc = "hookSettled"
  /\ spanMetadata' = [spanMetadata EXCEPT !.output = TRUE]
  /\ checks' = Append(checks, [at |-> "try", aborted |-> aborted])
  /\ LET outcome == TryOutcome(aborted, toolResult) IN
     \E now \in Nows(call), cfg \in Configs, convertThrows \in BOOLEAN :
       CASE outcome = "cancelled" ->
              /\ returned' = Append(returned,
                                    CreateCancelledResult(call, CancelReason, now))
              /\ pc' = "returned"
              /\ UNCHANGED << executionError, faultFrom, successVars >>
         [] outcome = "error" ->
              /\ returned' = Append(returned,
                   CreateErrorResult(call,
                     ToolExecutionError(toolResult.error.message,
                                        toolResult.returnDisplay,
                                        toolResult.error.type), now))
              /\ pc' = "returned"
              /\ UNCHANGED << executionError, faultFrom, successVars >>
         [] outcome = "success" ->
              /\ config' = cfg
              /\ UNCHANGED << returned, telemetry >>
              /\ IF GovernanceApplies(call, toolResult.llmContent, cfg)
                    /\ ExceedsThreshold(toolResult.llmContent, cfg)
                 THEN /\ content' = toolResult.llmContent
                      /\ storeCalls' = Append(storeCalls,
                           [ toolName |-> call.request.name,
                             callId |-> call.request.callId,
                             len |-> toolResult.llmContent.len ])
                      /\ pc' = "saving"
                      /\ UNCHANGED << outputFile, pending, executionError,
                                      faultFrom >>
                 ELSE /\ content' = toolResult.llmContent
                      /\ UNCHANGED << outputFile, storeCalls >>
                      /\ FinishSuccess(toolResult.llmContent, undefined,
                                       convertThrows, now)
  /\ UNCHANGED << inputVars, aborted, liveOutputCallback, setPidCallback,
                  hookCalls, toolResult, callbackVars, thrown >>

\* saveTruncatedToolOutput is fulfilled: the content is replaced by the stub,
\* the truncation is logged and createSuccessResult runs to its end.
SaveSettles(savedPath) ==
  /\ pc = "saving"
  /\ \E newLen \in FormattedLens(content), convertThrows \in BOOLEAN, now \in Nows(call) :
       LET stub == FormatTruncatedToolOutput(content, newLen) IN
       /\ outputFile' = savedPath
       /\ content' = stub
       /\ telemetry' = Append(telemetry,
                               TruncationEvent(call, content, stub, config))
       /\ FinishSuccess(stub, savedPath, convertThrows, now)
  /\ UNCHANGED << inputVars, aborted, liveOutputCallback, setPidCallback,
                  hookCalls, toolResult, config, storeCalls, callbackVars,
                  returned, thrown, spanMetadata, checks >>

\* saveTruncatedToolOutput is rejected: so is createSuccessResult.
SaveThrows ==
  /\ pc = "saving"
  /\ executionError' = StoreFault
  /\ faultFrom' = "store"
  /\ pc' = "rejected"
  /\ UNCHANGED << inputVars, aborted, liveOutputCallback, setPidCallback,
                  hookCalls, toolResult, successVars, callbackVars, returned,
                  thrown, spanMetadata, checks >>

\* `return await this.createSuccessResult(...)` resumes with the call.
SuccessReturns ==
  /\ pc = "successSettled"
  /\ returned' = Append(returned, pending)
  /\ pc' = "returned"
  /\ UNCHANGED << inputVars, aborted, liveOutputCallback, setPidCallback,
                  hookCalls, toolResult, executionError, faultFrom, successVars,
                  callbackVars, thrown, spanMetadata, checks >>

\* Mutant: a fault of the hook-wrapped execution is retried once.
CatchBranch_Retry ==
  /\ pc = "rejected"
  /\ spanMetadata' = [spanMetadata EXCEPT !.error = TRUE]
  /\ checks' = Append(checks, [at |-> "catch", aborted |-> aborted])
  /\ IF faultFrom = "hook" /\ hookCalls < 2 /\ ~aborted
     THEN /\ hookCalls' = hookCalls + 1
          /\ pc' = "awaitHook"
          /\ UNCHANGED returned
     ELSE /\ \E now \in Nows(call) :
               returned' = Append(returned,
                 CatchResult(call, aborted, executionError, now))
          /\ pc' = "returned"
          /\ UNCHANGED hookCalls
  /\ UNCHANGED << inputVars, aborted, liveOutputCallback, setPidCallback,
                  toolResult, executionError, faultFrom, successVars,
                  callbackVars, thrown >>

\* Mutant: createSuccessResult is returned without await, so its rejection
\* is not caught.
CatchBranch_SuccessNotAwaited ==
  /\ pc = "rejected"
  /\ IF faultFrom # "hook"
     THEN /\ thrown' = Append(thrown, executionError)
          /\ pc' = "thrown"
          /\ UNCHANGED << returned, spanMetadata, checks >>
     ELSE /\ spanMetadata' = [spanMetadata EXCEPT !.error = TRUE]
          /\ checks' = Append(checks, [at |-> "catch", aborted |-> aborted])
          /\ \E now \in Nows(call) :
               returned' = Append(returned,
                 CatchResult(call, aborted, executionError, now))
          /\ pc' = "returned"
          /\ UNCHANGED thrown
  /\ UNCHANGED << inputVars, aborted, liveOutputCallback, setPidCallback,
                  hookCalls, toolResult, executionError, faultFrom, successVars,
                  callbackVars >>

\* The catch block: it handles a rejection of the awaited promise and a
\* rejection of createSuccessResult alike.
CatchBranch ==
  /\ pc = "rejected"
  /\ spanMetadata' = [spanMetadata EXCEPT !.error = TRUE]
  /\ checks' = Append(checks, [at |-> "catch", aborted |-> aborted])
  /\ \E now \in Nows(call) :
       returned' = Append(returned,
                          CatchResult(call, aborted, executionError, now))
  /\ pc' = "returned"
  /\ UNCHANGED << inputVars, aborted, liveOutputCallback, setPidCallback,
                  hookCalls, toolResult, executionError, faultFrom, successVars,
                  callbackVars, thrown >>

Next ==
  \/ Execute
  \/ Abort
  \/ \E pid \in Pids : SetPid(pid)
  \/ \E chunk \in Chunks : LiveOutput(chunk)
  \/ \E result \in ToolResults : HookSettles(result)
  \/ \E fault \in HookFaults : HookThrows(fault)
  \/ TryBranch
  \/ SaveSettles("/tmp/out.txt")
  \/ SaveThrows
  \/ SuccessReturns
  \/ CatchBranch

Spec == Init /\ [][Next]_vars

\* The promise of executeToolWithHooks settles or throws; so does the promise
\* of saveTruncatedToolOutput.
HookEnds ==
  \/ \E result \in ToolResults : HookSettles(result)
  \/ \E fault \in HookFaults : HookThrows(fault)
StoreEnds == SaveSettles("/tmp/out.txt") \/ SaveThrows

\* The event loop runs every continuation of execute that is ready, and the
\* collaborators keep their promise to settle or throw.  The abort and the
\* callbacks of the invocation layer may or may not happen.
FairSpec ==
  /\ Spec
  /\ WF_vars(Execute)
  /\ WF_vars(TryBranch)
  /\ WF_vars(SuccessReturns)
  /\ WF_vars(CatchBranch)
  /\ WF_vars(HookEnds)
  /\ WF_vars(StoreEnds)


\* ------------------------------------------------------------------ claims
\* The call carries a resolved tool and a resolved invocation.
CarriesToolAndInvocation ==
  call.tool.key /\ call.tool.defined /\ call.invocation # "absent"

Terminal == {"success", "error", "cancelled"}

\* C1: for a call that carries tool and invocation, one execute calls
\* executeToolWithHooks exactly once, throws nothing, and returns at most one
\* call - exactly one once it is over - whose status is success, error or
\* cancelled.
C1_OneHookCallOneTerminalCall ==
  CarriesToolAndInvocation =>
    /\ hookCalls = (IF pc = "start" THEN 0 ELSE 1)
    /\ thrown = << >>
    /\ pc # "thrown"
    /\ Len(returned) = (IF pc = "returned" THEN 1 ELSE 0)
    /\ \A i \in 1..Len(returned) : returned[i].status \in Terminal

C1_Witness ==
  /\ pc = "returned"
  /\ hookCalls = 1
  /\ Len(returned) = 1
  /\ returned[1].status = "success"

\* C2: if the signal is aborted when the checkpoint after the await/catch of
\* the hook-wrapped execution reads it, the returned call is cancelled and
\* carries nothing of the settled result or the fault.
C2_AbortedAtCheckpointGivesCancelled ==
  (pc = "returned" /\ Len(checks) >= 1 /\ checks[1].aborted) =>
    /\ Len(returned) = 1
    /\ returned[1].status = "cancelled"
    /\ returned[1].response.functionResponse.output = NoContent
    /\ returned[1].response.error = NoFault
    /\ returned[1].response.resultDisplay = undefined

C2_Witness ==
  /\ pc = "returned"
  /\ checks[1].aborted
  /\ toolResult.settled
  /\ toolResult.error.defined
  /\ returned[1].status = "cancelled"

\* C3: the signal is read at one checkpoint, so a call whose checkpoint found
\* the signal not aborted is never returned cancelled, whenever the abort
\* comes afterwards.
C3_AbortAfterCheckpointHasNoEffect ==
  (pc = "returned" /\ Len(checks) >= 1 /\ ~checks[1].aborted) =>
    returned[1].status # "cancelled"

\* C4: a fault leaves execute only when the precondition fails; a fault of the
\* hook-wrapped execution, of the artifact store or of the transcript
\* conversion, and a settled result with an error descriptor, end in a
\* returned call with status error when the signal read last is not aborted.
C4_OnlyPreconditionFaultsEscape ==
  /\ (thrown # << >> \/ pc = "thrown") => ~CarriesToolAndInvocation
  /\ ( /\ pc = "returned"
       /\ faultFrom # "none" \/ toolResult.error.defined
       /\ ~checks[Len(checks)].aborted )
     => (Len(returned) = 1 /\ returned[1].status = "error")

C4_Witness ==
  /\ pc = "returned"
  /\ faultFrom = "store"
  /\ thrown = << >>
  /\ returned[1].status = "error"

\* C5: a call without a resolved tool or without an invocation makes execute
\* throw the precondition fault, with no hook-wrapped execution, no notifier
\* call, no forwarded chunk and no returned call.
C5_PreconditionViolationThrowsFirst ==
  ~CarriesToolAndInvocation =>
    /\ hookCalls = 0
    /\ returned = << >>
    /\ notified = << >>
    /\ sinkLog = << >>
    /\ ~setPidCallback /\ ~liveOutputCallback
    /\ pc \in {"start", "thrown"}
    /\ thrown = (IF pc = "thrown" THEN << PreconditionFault >> ELSE << >>)

C5_Witness ==
  /\ pc = "thrown"
  /\ call.tool.key /\ ~call.tool.defined
  /\ call.invocation # "absent"
  /\ thrown = << PreconditionFault >>

\* C6: with the signal not aborted at the checkpoint, a thrown fault gives
\* error, a settled result with an error descriptor gives error whatever its
\* payload, any other settled result gives success unless a later step of the
\* success path throws, and only then does it give error.
C6_StatusPrecedence ==
  (pc = "returned" /\ Len(checks) >= 1 /\ ~checks[1].aborted) =>
    /\ faultFrom = "hook" => returned[1].status = "error"
    /\ (toolResult.settled /\ toolResult.error.defined)
         => returned[1].status = "error"
    /\ (toolResult.settled /\ ~toolResult.error.defined /\ faultFrom = "none")
         => returned[1].status = "success"
    /\ (toolResult.settled /\ ~toolResult.error.defined
          /\ returned[1].status = "error")
         => faultFrom \in {"store", "convert"}

C6_Witness ==
  /\ pc = "returned"
  /\ ~checks[1].aborted
  /\ toolResult.error.defined
  /\ toolResult.llmContent.textual
  /\ returned[1].status = "error"

\* C7: the executing status is published through the notifier at most once
\* during one execute, and no pending call is published.
C7_ExecutingPublishedAtMostOnce ==
  /\ Cardinality({i \in 1..Len(notified) : notified[i].status = "executing"}) <= 1
  /\ \A i \in 1..Len(notified) : notified[i].status # "pending"

\* C8: every call of the process-identity callback has given the notifier one
\* call: executing, with the reported pid, the request, tool and invocation of
\* the original call and its recorded start time (undefined if none).
C8_PidCallbackPublishesExecuting ==
  /\ Len(notified) = Len(pidCalls)
  /\ \A i \in 1..Len(notified) :
       /\ notified[i].status = "executing"
       /\ notified[i].pid = pidCalls[i]
       /\ notified[i].request = call.request
       /\ notified[i].tool = call.tool
       /\ notified[i].invocation = call.invocation
       /\ notified[i].startTime =
            (IF call.startTime.key THEN call.startTime.value ELSE NoNumber)

C8_Witness ==
  /\ pc = "awaitHook"
  /\ Len(pidCalls) = 1
  /\ Len(notified) = 1
  /\ call.startTime.key /\ call.startTime.value = 0
  /\ notified[1].startTime = 0

\* C9: the process-identity callback is handed over only for a
\* ShellToolInvocation; for any other invocation the notifier is never called.
C9_PidCallbackOnlyForShellInvocation ==
  /\ setPidCallback => call.invocation = "shell"
  /\ call.invocation # "shell" => (pidCalls = << >> /\ notified = << >>)

C9_Witness ==
  /\ pc = "returned"
  /\ call.invocation = "other"
  /\ call.request.name = SHELL_TOOL_NAME
  /\ ~setPidCallback
  /\ notified = << >>

\* C10: the duration of a returned call is undefined exactly when no start
\* time was recorded on the call, and is otherwise non-negative.
C10_DurationUndefinedIffNoStartTime ==
  \A i \in 1..Len(returned) :
    LET recorded == call.startTime.key /\ call.startTime.value # NoNumber IN
    /\ (returned[i].durationMs = NoNumber) <=> ~recorded
    /\ recorded => returned[i].durationMs >= 0


\* The returned call is a success whose settled content was textual.
TextualSuccess ==
  /\ pc = "returned"
  /\ Len(returned) = 1
  /\ returned[1].status = "success"
  /\ toolResult.llmContent.textual

\* The store was called once with the full content, the returned content is
\* shorter and comes with the artifact reference, and one telemetry record
\* holds the lengths before and after.
TruncatedOnce ==
  /\ storeCalls = << [ toolName |-> call.request.name,
                       callId |-> call.request.callId,
                       len |-> toolResult.llmContent.len ] >>
  /\ returned[1].response.outputFile # undefined
  /\ returned[1].response.contentLength < toolResult.llmContent.len
  /\ returned[1].response.functionResponse.output.len
       = returned[1].response.contentLength
  /\ Len(telemetry) = 1
  /\ telemetry[1].originalContentLength = toolResult.llmContent.len
  /\ telemetry[1].truncatedContentLength = returned[1].response.contentLength

C12_GovernanceDisabledIsNoOp ==
  (config # NoConfig /\ (config.threshold <= 0 \/ config.lines <= 0)) =>
    /\ storeCalls = << >>
    /\ telemetry = << >>
    /\ outputFile = undefined
    /\ (pc = "returned" /\ returned[1].status = "success") =>
         /\ returned[1].response.functionResponse.output = toolResult.llmContent
         /\ returned[1].response.outputFile = undefined

C12_Witness ==
  /\ TextualSuccess
  /\ call.request.name = SHELL_TOOL_NAME
  /\ config.enableTruncation
  /\ config.threshold > 0
  /\ config.lines <= 0
  /\ toolResult.llmContent.len > config.threshold
  /\ returned[1].response.functionResponse.output = toolResult.llmContent

\* C13: textual success content no longer than the threshold reaches the
\* transcript conversion unchanged, without store call and artifact reference,
\* and contentLength is its length.
C13_ShortContentIsUnchanged ==
  ( /\ TextualSuccess
    /\ toolResult.llmContent.len <= config.threshold )
  => /\ storeCalls = << >>
     /\ returned[1].response.functionResponse.output = toolResult.llmContent
     /\ returned[1].response.outputFile = undefined
     /\ returned[1].response.contentLength = toolResult.llmContent.len

C13_Witness ==
  /\ TextualSuccess
  /\ call.request.name = SHELL_TOOL_NAME
  /\ config.enableTruncation
  /\ config.lines > 0
  /\ toolResult.llmContent.len = config.threshold
  /\ returned[1].response.contentLength = toolResult.llmContent.len
  /\ storeCalls = << >>


\* The returned call is an error that stems from a thrown ToolExecutionError.
ErrorFromThrownStructuredFault ==
  /\ pc = "returned"
  /\ returned[1].status = "error"
  /\ faultFrom = "hook"
  /\ executionError.cls = "ToolExecutionError"

\* The returned call is an error that stems from a settled error descriptor.
ErrorFromDescriptor ==
  /\ pc = "returned"
  /\ returned[1].status = "error"
  /\ faultFrom = "none"
  /\ toolResult.error.defined

\* The machine-readable error of the returned call is msg, and so is the
\* measured content.
ErrorTextIs(msg) ==
  /\ returned[1].response.functionResponse.error = msg
  /\ returned[1].response.contentLength = Len(msg)

\* C14 as stated: an error call that stems from a thrown ToolExecutionError or
\* from a settled error descriptor shows the fault's display and kind unchanged
\* as resultDisplay and errorType, and its message as the error text.
C14_StructuredFaultPassesThrough ==
  /\ ErrorFromThrownStructuredFault =>
       /\ returned[1].response.resultDisplay = executionError.returnDisplay
       /\ returned[1].response.errorType = executionError.errorType
       /\ ErrorTextIs(executionError.message)
  /\ ErrorFromDescriptor =>
       /\ returned[1].response.resultDisplay = toolResult.returnDisplay
       /\ returned[1].response.errorType = toolResult.error.type
       /\ ErrorTextIs(toolResult.error.message)

\* C14 as amended: the display and the kind the fault carries appear
\* unchanged; a fault without display shows its message, a thrown fault
\* without kind gets UNHANDLED_EXCEPTION, a descriptor without kind leaves the
\* error type undefined; the error text is always the message.
C14_StructuredFaultPassesThroughWhenCarried ==
  /\ ErrorFromThrownStructuredFault =>
       /\ returned[1].response.resultDisplay =
            (IF executionError.returnDisplay # undefined
             THEN executionError.returnDisplay ELSE executionError.message)
       /\ returned[1].response.errorType =
            (IF executionError.errorType # undefined
             THEN executionError.errorType ELSE UNHANDLED_EXCEPTION)
       /\ ErrorTextIs(executionError.message)
  /\ ErrorFromDescriptor =>
       /\ returned[1].response.resultDisplay =
            (IF toolResult.returnDisplay # undefined
             THEN toolResult.returnDisplay ELSE toolResult.error.message)
       /\ returned[1].response.errorType = toolResult.error.type
       /\ ErrorTextIs(toolResult.error.message)

C14_Witness ==
  /\ ErrorFromThrownStructuredFault
  /\ executionError.returnDisplay = "friendly"
  /\ executionError.errorType = "invalid_tool_params"
  /\ returned[1].response.resultDisplay = "friendly"
  /\ returned[1].response.errorType = "invalid_tool_params"
  /\ returned[1].response.functionResponse.error = "boom"

\* The text JavaScript gives for a thrown value that is no ToolExecutionError.
TextOfFault ==
  CASE executionError.cls = "Error" -> executionError.message
    [] executionError.cls = "string" -> executionError.message
    [] executionError.cls = "undefined" -> "undefined"
    [] OTHER -> undefined

\* C15: an error call that stems from a thrown value other than a
\* ToolExecutionError has the value's text as error text and as display and
\* the kind UNHANDLED_EXCEPTION; no error call that stems from a thrown fault
\* has an undefined kind.
C15_UnstructuredFaultIsUnhandled ==
  (pc = "returned" /\ returned[1].status = "error" /\ faultFrom # "none") =>
    /\ returned[1].response.errorType # undefined
    /\ executionError.cls # "ToolExecutionError" =>
         /\ ErrorTextIs(TextOfFault)
         /\ returned[1].response.resultDisplay = TextOfFault
         /\ returned[1].response.errorType = UNHANDLED_EXCEPTION

C15_Witness ==
  /\ pc = "returned"
  /\ returned[1].status = "error"
  /\ faultFrom = "hook"
  /\ executionError.cls = "undefined"
  /\ returned[1].response.functionResponse.error = "undefined"
  /\ returned[1].response.errorType = UNHANDLED_EXCEPTION

CancelledText == "[Operation Cancelled] User cancelled tool execution."

\* C16: every cancelled call execute returns has the fixed error text, no
\* error object, no kind, no display, and the text's length as contentLength.
C16_CancelledPayload ==
  \A i \in 1..Len(returned) :
    returned[i].status = "cancelled" =>
      /\ returned[i].response.functionResponse.error = CancelledText
      /\ returned[i].response.error = NoFault
      /\ returned[i].response.errorType = undefined
      /\ returned[i].response.resultDisplay = undefined
      /\ returned[i].response.contentLength = Len(CancelledText)

\* The signal was aborted while the promise was awaited, and the promise was
\* then rejected.
C16_Witness ==
  /\ pc = "returned"
  /\ faultFrom = "hook"
  /\ executionError.cls = "ToolExecutionError"
  /\ checks = << [at |-> "catch", aborted |-> TRUE] >>
  /\ returned[1].status = "cancelled"
  /\ returned[1].response.functionResponse.error = CancelledText


\* C17: when the checkpoint finds the signal aborted, when the hook-wrapped
\* execution threw, or when the settled result carries an error descriptor,
\* the store is never called, nothing is logged and no artifact reference is
\* produced or returned.
C17_GovernanceOnlyOnSuccessPath ==
  ( \/ (Len(checks) >= 1 /\ checks[1].aborted)
    \/ faultFrom = "hook"
    \/ toolResult.error.defined )
  => /\ storeCalls = << >>
     /\ telemetry = << >>
     /\ outputFile = undefined
     /\ config = NoConfig
     /\ \A i \in 1..Len(returned) : returned[i].response.outputFile = undefined

\* A long textual shell result under an aborted signal: cancelled, not stored.
C17_Witness ==
  /\ pc = "returned"
  /\ checks[1].aborted
  /\ call.request.name = SHELL_TOOL_NAME
  /\ toolResult.settled
  /\ ~toolResult.error.defined
  /\ toolResult.llmContent.textual
  /\ toolResult.llmContent.len = MaxLen
  /\ returned[1].status = "cancelled"
  /\ storeCalls = << >>

\* C18: the forwarding callback is handed over exactly when the tool declares
\* canUpdateOutput and a sink was supplied; the sink has received every
\* emitted chunk once, with the call's id, in the order of emission; without
\* the callback the sink is never called.
C18_LiveOutputForwarding ==
  /\ pc \notin {"start", "thrown"} =>
       (liveOutputCallback <=> (call.tool.canUpdateOutput /\ outputUpdateHandler))
  /\ Len(sinkLog) = Len(chunksEmitted)
  /\ \A i \in 1..Len(sinkLog) :
       /\ sinkLog[i].callId = call.request.callId
       /\ sinkLog[i].output = chunksEmitted[i]
  /\ ~(call.tool.canUpdateOutput /\ outputUpdateHandler) => sinkLog = << >>

C18_Witness ==
  /\ call.tool.canUpdateOutput
  /\ outputUpdateHandler
  /\ pc = "awaitHook"
  /\ chunksEmitted = << "b", "a" >>
  /\ sinkLog = << [callId |-> "c1", output |-> "b"],
                  [callId |-> "c1", output |-> "a"] >>


\* C19: for a call that carries tool and invocation, when the hook-wrapped
\* execution and the store settle or throw, execute eventually returns a
\* terminal call; and execute has never returned while the hook-wrapped
\* execution has neither settled nor thrown, aborted signal or not.
C19_ExecuteEventuallyReturns ==
  /\ CarriesToolAndInvocation =>
       <>(pc = "returned" /\ Len(returned) = 1
            /\ returned[1].status \in Terminal)
  /\ [](Len(returned) > 0 => (toolResult.settled \/ faultFrom = "hook"))

\* Returned after the store settled; and still waiting under an aborted signal.
C19_Witness ==
  /\ pc = "returned"
  /\ Len(storeCalls) = 1
  /\ faultFrom = "store"
  /\ returned[1].status \in Terminal


\* C20: once execute has returned its terminal call, no step gives the
\* notifier another call.
C20_NoNotificationAfterReturn ==
  [][pc = "returned" => notified' = notified]_vars

====
